---------------------------- MODULE Spec2Model ----------------------------
(***************************************************************************)
(* Model of the value_investing_AI ratio pipeline.                         *)
(*                                                                         *)
(*   src/src/ratio_calculator.py  load_and_clean_financial_data,           *)
(*                                calculate_ratios, analyze_ticker, the    *)
(*                                main loop and the two writers            *)
(*   src/src/prices.py            get_industry_key,                        *)
(*                                download_and_save_prices                 *)
(*                                                                         *)
(* Numbers are exact rationals extended with NaN, +inf and -inf, the       *)
(* values pandas/numpy floating point produces for missing cells and for   *)
(* divisions by zero.  A raw file is revealed when a script first opens    *)
(* it: ProcessTicker draws the entity's files from an input universe.      *)
(***************************************************************************)
EXTENDS Integers, Sequences, FiniteSets, TLC

VARIABLES
    tickers,                \* the list the run iterates over
    pc,                     \* position of ratio_calculator.py / prices.py
    idx,                    \* number of tickers the main loop has processed
    files,                  \* ticker -> raw files of data/raw seen so far
    all_ratios,             \* list of current-period Series
    historical_dataframes,  \* ticker -> historical table
    ticker_to_industry,     \* ticker -> IndustryKey
    current_csv,            \* industry dir -> consolidated current-ratio table
    display,                \* industry dir -> formatted view printed
    historical_csv,         \* <<industry dir, ticker>> -> historical table
    price_dir               \* ticker -> industry dir prices.py uses

vars == <<tickers, pc, idx, files, all_ratios, historical_dataframes,
          ticker_to_industry, current_csv, display, historical_csv, price_dir>>

-----------------------------------------------------------------------------
(* Bounds of the model *)

\* number of tickers of TICKERS_TO_ANALYZE a run iterates over
NumTickers == 2

\* number of distinct reporting periods a raw statement can hold
MaxPeriods == 2

-----------------------------------------------------------------------------
(* Floating point values: finite rationals n/d, NaN, +inf, -inf *)

Abs(x) == IF x < 0 THEN -x ELSE x

RECURSIVE Gcd(_, _)
Gcd(a, b) == IF b = 0 THEN a ELSE Gcd(b, a % b)

Rat(n, d) ==
    LET g == Gcd(Abs(n), Abs(d))
        s == IF d < 0 THEN -1 ELSE 1
    IN  [k |-> "fin", n |-> (s * n) \div g, d |-> (s * d) \div g]

Num(n) == [k |-> "fin", n |-> n, d |-> 1]
NaN    == [k |-> "nan", n |-> 0, d |-> 1]
Inf    == [k |-> "inf", n |-> 1, d |-> 1]
NegInf == [k |-> "inf", n |-> -1, d |-> 1]

IsNaN(x)  == x.k = "nan"
IsFin(x)  == x.k = "fin"
IsZero(x) == x.k = "fin" /\ x.n = 0
Sign(x)   == IF x.n > 0 THEN 1 ELSE IF x.n < 0 THEN -1 ELSE 0
Signed(s) == IF s > 0 THEN Inf ELSE NegInf

\* x != 0 as Python evaluates it on a float: NaN != 0 is True
NotEqZero(x) == ~IsZero(x)

FAdd(a, b) ==
    IF IsNaN(a) \/ IsNaN(b) THEN NaN
    ELSE IF ~IsFin(a) /\ ~IsFin(b) THEN (IF a = b THEN a ELSE NaN)
    ELSE IF ~IsFin(a) THEN a
    ELSE IF ~IsFin(b) THEN b
    ELSE Rat(a.n * b.d + b.n * a.d, a.d * b.d)

FNeg(a) == IF IsNaN(a) THEN NaN ELSE [a EXCEPT !.n = -a.n]

FSub(a, b) == FAdd(a, FNeg(b))

FMul(a, b) ==
    IF IsNaN(a) \/ IsNaN(b) THEN NaN
    ELSE IF ~IsFin(a) \/ ~IsFin(b)
         THEN (IF IsZero(a) \/ IsZero(b) THEN NaN ELSE Signed(Sign(a) * Sign(b)))
    ELSE Rat(a.n * b.n, a.d * b.d)

\* IEEE division as numpy performs it: x/0 is +-inf, 0/0 is NaN, no exception
FDiv(a, b) ==
    IF IsNaN(a) \/ IsNaN(b) THEN NaN
    ELSE IF ~IsFin(a) THEN (IF ~IsFin(b) THEN NaN
                            ELSE Signed(Sign(a) * (IF Sign(b) < 0 THEN -1 ELSE 1)))
    ELSE IF ~IsFin(b) THEN Num(0)
    ELSE IF IsZero(b) THEN (IF IsZero(a) THEN NaN ELSE Signed(Sign(a)))
    ELSE Rat(a.n * b.d, a.d * b.n)


-----------------------------------------------------------------------------
(* Configuration of ratio_calculator.py *)

FINANCIALS_COLS ==
    {"Net Income", "EBIT", "EBITDA", "Tax Provision", "Pretax Income", "Diluted EPS"}

BALANCE_SHEET_COLS ==
    {"Stockholders Equity", "Invested Capital", "Total Debt",
     "Cash And Cash Equivalents"}

CASHFLOW_COLS == {"Free Cash Flow"}

\* the subset= argument of dropna
CRITICAL_COLS ==
    {"Net Income", "Stockholders Equity", "EBIT", "EBITDA", "Free Cash Flow"}

ALL_COLS == FINANCIALS_COLS \cup BALANCE_SHEET_COLS \cup CASHFLOW_COLS

\* the 0.21 of the tax-rate lambda, as 21/100
FALLBACK_TAX_NUM == 21
FALLBACK_TAX_DEN == 100

DEFAULT_INDUSTRY == "default_industry"

\* Python's None where a classification key is expected
NoneKey == "<None>"

\* Python's None where a number is expected
NoneNum == [k |-> "None", n |-> 0, d |-> 1]

\* Python's None where a Series or a DataFrame is expected
NoneObj == [kind |-> "None"]

\* dict.get(key, default)
Get(bag, key, default) == IF key \in DOMAIN bag THEN bag[key] ELSE default

-----------------------------------------------------------------------------
(* DataFrames: a sequence of rows [Date, v], v a function column -> value *)

Range(s) == {s[i] : i \in 1..Len(s)}

Dates(df) == {df[i].Date : i \in 1..Len(df)}

Index(df) == [i \in 1..Len(df) |-> df[i].Date]

RowAt(df, date) == (CHOOSE i \in 1..Len(df) : df[i].Date = date)

RECURSIVE SortedSeqOf(_)
SortedSeqOf(S) ==
    IF S = {} THEN <<>>
    ELSE LET m == CHOOSE x \in S : \A y \in S : x <= y
         IN  <<m>> \o SortedSeqOf(S \ {m})

\* DataFrame.sort_index(ascending=True)
SortIndexUnsortedMutant(df) == df
SortIndex(df) == SortSeq(df, LAMBDA a, b : a.Date < b.Date)

\* df[keep_columns]
SelectColumns(df, keep) ==
    [i \in 1..Len(df) |->
        [Date |-> df[i].Date, v |-> [c \in keep |-> df[i].v[c]]]]

\* a raw file of data/raw: st is "ok", "notfound" or "malformed"; cols are the
\* field names the payload carries, rows its periods in file order
LoadUncaughtNotFoundMutant(file, keep_columns) ==
    IF file.st = "notfound" THEN [exc |-> "FileNotFoundError", df |-> <<>>]
    ELSE IF file.st = "malformed" THEN [exc |-> "JSONDecodeError", df |-> <<>>]
    ELSE IF ~(keep_columns \subseteq file.cols) THEN [exc |-> "KeyError", df |-> <<>>]
    ELSE [exc |-> "none",
          df  |-> SortIndex(SelectColumns(file.rows, keep_columns))]
load_and_clean_financial_data(file, keep_columns) ==
    IF file.st = "notfound" THEN [exc |-> "none", df |-> <<>>]
    ELSE IF file.st = "malformed" THEN [exc |-> "JSONDecodeError", df |-> <<>>]
    ELSE IF ~(keep_columns \subseteq file.cols) THEN [exc |-> "KeyError", df |-> <<>>]
    ELSE [exc |-> "none",
          df  |-> SortIndex(SelectColumns(file.rows, keep_columns))]

\* DataFrame.empty
Empty(df) == Len(df) = 0

\* pd.concat([...], axis=1): outer join on the index.  Identical indexes are
\* kept as they are; otherwise the union of a DatetimeIndex comes out sorted.
ConcatIndex(a, b, c) ==
    IF Index(a) = Index(b) /\ Index(b) = Index(c) THEN Index(a)
    ELSE SortedSeqOf(Dates(a) \cup Dates(b) \cup Dates(c))

Cell(df, cols, date, c) ==
    IF c \in cols /\ date \in Dates(df) THEN df[RowAt(df, date)].v[c] ELSE NaN

Concat(a, b, c) ==
    LET ix == ConcatIndex(a, b, c)
    IN  [i \in 1..Len(ix) |->
          [Date |-> ix[i],
           v |-> [col \in ALL_COLS |->
                    IF col \in FINANCIALS_COLS
                        THEN Cell(a, FINANCIALS_COLS, ix[i], col)
                    ELSE IF col \in BALANCE_SHEET_COLS
                        THEN Cell(b, BALANCE_SHEET_COLS, ix[i], col)
                    ELSE Cell(c, CASHFLOW_COLS, ix[i], col)]]]

\* DataFrame.dropna(subset=...)
DropnaAnyCriticalMutant(df, subset) ==
    SelectSeq(df, LAMBDA r : \E c \in subset : ~IsNaN(r.v[c]))
Dropna(df, subset) ==
    SelectSeq(df, LAMBDA r : \A c \in subset : ~IsNaN(r.v[c]))

Consolidate(df_financials, df_balance, df_cashflow) ==
    Dropna(Concat(df_financials, df_balance, df_cashflow), CRITICAL_COLS)

-----------------------------------------------------------------------------
(* calculate_ratios *)

Hundred == Num(100)

\* ROE = Net Income / Stockholders Equity * 100
ROE(row) == FMul(FDiv(row.v["Net Income"], row.v["Stockholders Equity"]), Hundred)

\* the lambda applied to every row
TaxRateAlwaysDivideMutant(row) ==
    FDiv(row.v["Tax Provision"], row.v["Pretax Income"])
TaxRate(row) ==
    IF NotEqZero(row.v["Pretax Income"])
        THEN FDiv(row.v["Tax Provision"], row.v["Pretax Income"])
        ELSE Rat(FALLBACK_TAX_NUM, FALLBACK_TAX_DEN)

\* ROIC = EBIT * (1 - tax_rate) / Invested Capital * 100
ROIC(row) ==
    FMul(FDiv(FMul(row.v["EBIT"], FSub(Num(1), TaxRate(row))),
              row.v["Invested Capital"]),
         Hundred)

\* the two assignments df_combined['ROE (%)'] and df_combined['ROIC (%)']
WithHistoricalRatios(df) ==
    [i \in 1..Len(df) |->
        [Date |-> df[i].Date,
         v |-> [c \in ALL_COLS \cup {"ROE (%)", "ROIC (%)"} |->
                  IF c = "ROE (%)" THEN ROE(df[i])
                  ELSE IF c = "ROIC (%)" THEN ROIC(df[i])
                  ELSE df[i].v[c]]]]

\* df_combined.iloc[-1]
LastPeriod(df) == df[Len(df)]

\* EV = market_cap + total_debt - cash
EnterpriseValue(market_cap, total_debt, cash) ==
    FSub(FAdd(market_cap, total_debt), cash)

\* x / y if y != 0 else float('inf')
GuardedRatioZeroMutant(x, y) == IF NotEqZero(y) THEN FDiv(x, y) ELSE Num(0)
GuardedRatio(x, y) == IF NotEqZero(y) THEN FDiv(x, y) ELSE Inf

ErrorDict == [kind |-> "dict", Error |-> "Market Cap o Precio actual no disponible."]

\* the industry_key calculate_ratios reads from the metadata
RatioIndustryKey(info_data) == Get(info_data, "industryKey", DEFAULT_INDUSTRY)

ResultsCurrent(df, market_cap, current_price, industry_key) ==
    LET last_period_data == LastPeriod(df)
        total_debt  == last_period_data.v["Total Debt"]
        cash        == last_period_data.v["Cash And Cash Equivalents"]
        ebit        == last_period_data.v["EBIT"]
        ebitda      == last_period_data.v["EBITDA"]
        fcf         == last_period_data.v["Free Cash Flow"]
        diluted_eps == last_period_data.v["Diluted EPS"]
        EV          == EnterpriseValue(market_cap, total_debt, cash)
    IN  [kind        |-> "Series",
         name        |-> "",
         Date        |-> last_period_data.Date,
         MarketCap   |-> market_cap,
         EV          |-> EV,
         IndustryKey |-> industry_key,
         ROE         |-> last_period_data.v["ROE (%)"],
         ROIC        |-> last_period_data.v["ROIC (%)"],
         PER         |-> GuardedRatio(current_price, diluted_eps),
         EV_EBIT     |-> GuardedRatio(EV, ebit),
         EV_EBITDA   |-> GuardedRatio(EV, ebitda),
         EV_FCF      |-> GuardedRatio(EV, fcf)]

calculate_ratios(df_combined, info_data) ==
    IF Empty(df_combined)
        THEN [ratios |-> NoneObj, hist |-> <<>>, has_hist |-> FALSE, key |-> NoneKey]
    ELSE
        LET df            == WithHistoricalRatios(df_combined)
            market_cap    == Get(info_data, "marketCap", NoneNum)
            current_price == Get(info_data, "currentPrice", NoneNum)
            industry_key  == RatioIndustryKey(info_data)
        IN  IF market_cap = NoneNum \/ current_price = NoneNum
                THEN [ratios |-> ErrorDict, hist |-> df, has_hist |-> TRUE,
                      key |-> industry_key]
            ELSE [ratios   |-> ResultsCurrent(df, market_cap, current_price,
                                              industry_key),
                  hist     |-> df,
                  has_hist |-> TRUE,
                  key      |-> industry_key]

-----------------------------------------------------------------------------
(* analyze_ticker *)

NoResult(exc, key) ==
    [exc |-> exc, ratios |-> NoneObj, hist |-> <<>>, has_hist |-> FALSE, key |-> key]

\* the value analyze_ticker returns once calculate_ratios has answered
ReturnRatiosKeepErrorMutant(ticker, r) ==
    [exc |-> "none",
     ratios |-> IF r.ratios.kind = "Series"
                  THEN [r.ratios EXCEPT !.name = ticker]
                  ELSE [kind |-> "Series", name |-> ticker, Date |-> 0,
                        MarketCap |-> NaN, EV |-> NaN, IndustryKey |-> r.key,
                        ROE |-> NaN, ROIC |-> NaN, PER |-> NaN, EV_EBIT |-> NaN,
                        EV_EBITDA |-> NaN, EV_FCF |-> NaN],
     hist |-> r.hist, has_hist |-> r.has_hist, key |-> r.key]
ReturnRatios(ticker, r) ==
    IF r.ratios # NoneObj /\ r.ratios.kind = "Series"
        THEN [exc |-> "none", ratios |-> [r.ratios EXCEPT !.name = ticker],
              hist |-> r.hist, has_hist |-> r.has_hist, key |-> r.key]
        ELSE [exc |-> "none", ratios |-> NoneObj,
              hist |-> r.hist, has_hist |-> r.has_hist, key |-> r.key]

\* f is the entity's part of data/raw: financials, balance_sheet, cashflow, info.
\* exc names the exception that leaves analyze_ticker uncaught, "none" otherwise.
analyze_ticker(ticker, f) ==
    LET fin == load_and_clean_financial_data(f.financials, FINANCIALS_COLS)
        bal == load_and_clean_financial_data(f.balance_sheet, BALANCE_SHEET_COLS)
        cfl == load_and_clean_financial_data(f.cashflow, CASHFLOW_COLS)
    IN  IF fin.exc # "none" THEN NoResult(fin.exc, NoneKey)
        ELSE IF bal.exc # "none" THEN NoResult(bal.exc, NoneKey)
        ELSE IF cfl.exc # "none" THEN NoResult(cfl.exc, NoneKey)
        ELSE IF Empty(fin.df) \/ Empty(bal.df) \/ Empty(cfl.df)
            THEN NoResult("none", NoneKey)
        ELSE IF f.info.st = "notfound" THEN NoResult("none", NoneKey)
        ELSE IF f.info.st = "malformed" THEN NoResult("JSONDecodeError", NoneKey)
        ELSE
            LET df_combined == Consolidate(fin.df, bal.df, cfl.df)
            IN  IF Empty(df_combined)
                    THEN NoResult("none", Get(f.info.data, "industryKey", NoneKey))
                ELSE ReturnRatios(ticker, calculate_ratios(df_combined, f.info.data))

-----------------------------------------------------------------------------
(* prices.py *)

\* a or b, on strings: the empty string is falsy
Or(a, b) == IF a # "" THEN a ELSE b

\* info_data.get('industryKey') or info_data.get('sector') or 'default_industry';
\* a missing or unreadable info file gives 'default_industry'
get_industry_key(info) ==
    IF info.st # "ok" THEN DEFAULT_INDUSTRY
    ELSE Or(Get(info.data, "industryKey", ""),
            Or(Get(info.data, "sector", ""), DEFAULT_INDUSTRY))

-----------------------------------------------------------------------------
(* Display formatting of a ratio column *)

Digits2(n) == IF n < 10 THEN "0" \o ToString(n) ELSE ToString(n)

\* f"{x:.2f}": two decimals, ties to even
Format2f(x) ==
    IF IsNaN(x) THEN "nan"
    ELSE IF ~IsFin(x) THEN (IF x.n > 0 THEN "inf" ELSE "-inf")
    ELSE LET a   == Abs(x.n) * 100
             q   == a \div x.d
             rem == a % x.d
             r   == IF 2 * rem > x.d \/ (2 * rem = x.d /\ q % 2 = 1)
                        THEN q + 1 ELSE q
         IN  (IF x.n < 0 THEN "-" ELSE "")
                \o ToString(r \div 100) \o "." \o Digits2(r % 100)

\* lambda x: f"{x:.2f}" if x != float('inf') else 'N/A'
FormatRatio(x) == IF x # Inf THEN Format2f(x) ELSE "N/A"

DisplayRow(r) ==
    [name      |-> r.name,
     Date      |-> r.Date,
     ROE       |-> FormatRatio(r.ROE),
     ROIC      |-> FormatRatio(r.ROIC),
     PER       |-> FormatRatio(r.PER),
     EV_EBIT   |-> FormatRatio(r.EV_EBIT),
     EV_EBITDA |-> FormatRatio(r.EV_EBITDA),
     EV_FCF    |-> FormatRatio(r.EV_FCF)]

-----------------------------------------------------------------------------
(* The run *)

TICKERS_TO_ANALYZE ==
    <<"MSFT", "ORCL", "CRM", "CSCO", "ADBE", "NOW", "AKAM", "VRSN", "CDNS">>

EmptyMap == [x \in {} |-> x]

InitWith(list) ==
    /\ tickers = list
    /\ pc = "loop"
    /\ idx = 0
    /\ files = EmptyMap
    /\ all_ratios = <<>>
    /\ historical_dataframes = EmptyMap
    /\ ticker_to_industry = EmptyMap
    /\ current_csv = EmptyMap
    /\ display = EmptyMap
    /\ historical_csv = EmptyMap
    /\ price_dir = EmptyMap

\* the body of the main loop after analyze_ticker returned r for ticker t
RecordIndustry(t, r, acc) ==
    IF r.ratios # NoneObj THEN (t :> r.key) @@ acc ELSE acc

\* one iteration of the main loop: the entity's raw files are whatever data/raw
\* holds, drawn from the universe; an exception analyze_ticker does not catch
\* ends the script
ProcessTicker(universe) ==
    /\ pc = "loop"
    /\ idx < Len(tickers)
    /\ \E f \in universe :
        LET t == tickers[idx + 1]
            r == analyze_ticker(t, f)
        IN  /\ files' = (t :> f) @@ files
            /\ IF r.exc # "none"
                 THEN /\ pc' = "crashed"
                      /\ UNCHANGED <<idx, all_ratios, historical_dataframes,
                                     ticker_to_industry>>
                 ELSE /\ idx' = idx + 1
                      /\ pc' = IF idx + 1 = Len(tickers)
                                  THEN "write_current" ELSE "loop"
                      /\ all_ratios' = IF r.ratios # NoneObj
                                          THEN Append(all_ratios, r.ratios)
                                          ELSE all_ratios
                      /\ ticker_to_industry' = RecordIndustry(t, r, ticker_to_industry)
                      /\ historical_dataframes' =
                            IF r.has_hist THEN (t :> r.hist) @@ historical_dataframes
                                          ELSE historical_dataframes
    /\ UNCHANGED <<tickers, current_csv, display, historical_csv, price_dir>>

\* df_final_ratios['IndustryKey'].unique()
UniqueIndustries(ratios) == {ratios[i].IndustryKey : i \in 1..Len(ratios)}

\* df_final_ratios[df_final_ratios['IndustryKey'] == industry]
IndustryRowsNoFilterMutant(ratios, industry) == ratios
IndustryRows(ratios, industry) ==
    SelectSeq(ratios, LAMBDA r : r.IndustryKey = industry)

\* .drop(columns=['IndustryKey'])
DropIndustryKey(rows) ==
    [i \in 1..Len(rows) |->
        [c \in DOMAIN rows[i] \ {"IndustryKey"} |-> rows[i][c]]]

\* section 4: one current-ratio table and one formatted view per IndustryKey
WriteCurrentRatios ==
    /\ pc = "write_current"
    /\ current_csv' = [industry \in UniqueIndustries(all_ratios) |->
                          DropIndustryKey(IndustryRows(all_ratios, industry))]
    /\ display' = [industry \in UniqueIndustries(all_ratios) |->
                      LET rows == IndustryRows(all_ratios, industry)
                      IN  [i \in 1..Len(rows) |-> DisplayRow(rows[i])]]
    /\ pc' = "write_historical"
    /\ UNCHANGED <<tickers, idx, files, all_ratios, historical_dataframes,
                   ticker_to_industry, historical_csv, price_dir>>

\* ticker_to_industry.get(ticker, 'default_industry')
HistoricalDir(ticker, mapping) == Get(mapping, ticker, DEFAULT_INDUSTRY)

\* section 5.1: one historical table per ticker, in its industry directory
WriteHistorical ==
    /\ pc = "write_historical"
    /\ historical_csv' =
          [path \in {<<HistoricalDir(t, ticker_to_industry), t>> :
                        t \in DOMAIN historical_dataframes} |->
              historical_dataframes[path[2]]]
    /\ pc' = "done"
    /\ UNCHANGED <<tickers, idx, files, all_ratios, historical_dataframes,
                   ticker_to_industry, current_csv, display, price_dir>>

\* prices.py over the same data/raw: download_and_save_prices creates the
\* directory get_industry_key names for every ticker
run_price_download_pipeline ==
    /\ pc = "done"
    /\ price_dir' = [t \in DOMAIN files |-> get_industry_key(files[t].info)]
    /\ pc' = "prices_done"
    /\ UNCHANGED <<tickers, idx, files, all_ratios, historical_dataframes,
                   ticker_to_industry, current_csv, display, historical_csv>>

-----------------------------------------------------------------------------
(* The contents of data/raw a run can meet.  A period is identified by its   *)
(* epoch key; to_datetime keeps the order of the keys, so the key stands for *)
(* the date.                                                                 *)

FinRowBase(d) ==
    [Date |-> d,
     v |-> [c \in FINANCIALS_COLS \cup {"Total Revenue"} |->
              CASE c = "Net Income"    -> Num(60 + 20 * d)
                [] c = "EBIT"          -> Num(80 + 20 * d)
                [] c = "EBITDA"        -> Num(110 + 20 * d)
                [] c = "Tax Provision" -> Num(20 + 5 * d)
                [] c = "Pretax Income" -> Num(100 + 25 * d)
                [] c = "Diluted EPS"   -> Num(2 * d)
                [] OTHER               -> Num(500 + 100 * d)]]

BalRowBase(d) ==
    [Date |-> d,
     v |-> [c \in BALANCE_SHEET_COLS |->
              CASE c = "Stockholders Equity" -> Num(300 + 100 * d)
                [] c = "Invested Capital"    -> Num(400 + 100 * d)
                [] c = "Total Debt"          -> Num(100 + 100 * d)
                [] OTHER                     -> Num(40 + 10 * d)]]

CfRowBase(d) ==
    [Date |-> d, v |-> [c \in CASHFLOW_COLS |-> Num(70 + 20 * d)]]

\* row with the cells named in cols replaced by x
SetCells(row, cols, x) ==
    [row EXCEPT !.v = [c \in DOMAIN row.v |-> IF c \in cols THEN x ELSE row.v[c]]]

Descending(n) == [i \in 1..n |-> n + 1 - i]
Ascending(n)  == [i \in 1..n |-> i]

\* the rows of a payload: the periods in `present`, in file order `order`
Rows(order, present, row) ==
    LET ds == SelectSeq(order, LAMBDA d : d \in present)
    IN  [i \in 1..Len(ds) |-> row[ds[i]]]

OkFile(cols, rows) == [st |-> "ok", cols |-> cols, rows |-> rows]
NotFound  == [st |-> "notfound", cols |-> {}, rows |-> <<>>]
Malformed == [st |-> "malformed", cols |-> {}, rows |-> <<>>]

FinCols == FINANCIALS_COLS \cup {"Total Revenue"}

Bag(mc, price, ik, sector) ==
    (IF mc THEN ("marketCap" :> Num(1000)) ELSE EmptyMap)
    @@ (IF price THEN ("currentPrice" :> Num(40)) ELSE EmptyMap)
    @@ (IF ik # "absent" THEN ("industryKey" :> ik) ELSE EmptyMap)
    @@ (IF sector # "absent" THEN ("sector" :> sector) ELSE EmptyMap)

InfoFile(bag) == [st |-> "ok", data |-> bag]
InfoNotFound  == [st |-> "notfound", data |-> EmptyMap]

IndustryKeys == {"software-infrastructure", "semiconductors"}

\* the classification fields of a metadata bag: industryKey set (yfinance then
\* reports a sector too), or industryKey absent or empty with or without sector
KeyFields ==
    {<<ik, "Technology">> : ik \in IndustryKeys}
    \cup {<<ik, sector>> : ik \in {"absent", ""}, sector \in {"absent", "Technology"}}

\* market cap and current price: both present, or one of them missing
MarketFields == {<<TRUE, TRUE>>, <<FALSE, TRUE>>, <<TRUE, FALSE>>}

Infos ==
    {InfoFile(Bag(m[1], m[2], kf[1], kf[2])) : m \in MarketFields, kf \in KeyFields}
    \cup {InfoNotFound}

FullInfo == InfoFile(Bag(TRUE, TRUE, "software-infrastructure", "Technology"))

Entity(fin, bal, cfl, info) ==
    [financials |-> fin, balance_sheet |-> bal, cashflow |-> cfl, info |-> info]

\* two reported periods, newest first as yfinance writes them; the older one
\* has a zero pretax income
GoodFin ==
    OkFile(FinCols,
           Rows(Descending(2), 1..2,
                [d \in 1..2 |->
                    IF d = 1 THEN SetCells(FinRowBase(d), {"Pretax Income"}, Num(0))
                             ELSE FinRowBase(d)]))
GoodBal ==
    OkFile(BALANCE_SHEET_COLS,
           Rows(Descending(2), 1..2, [d \in 1..2 |-> BalRowBase(d)]))
GoodCfl ==
    OkFile(CASHFLOW_COLS, Rows(Descending(2), 1..2, [d \in 1..2 |-> CfRowBase(d)]))

\* a balance sheet that reports no equity in any period
HollowBal ==
    OkFile(BALANCE_SHEET_COLS,
           Rows(Descending(2), 1..2,
                [d \in 1..2 |->
                    SetCells(BalRowBase(d), {"Stockholders Equity"}, NaN)]))

\* a balance sheet whose payload has no Invested Capital field
NoFieldBal ==
    OkFile(BALANCE_SHEET_COLS \ {"Invested Capital"},
           Rows(Descending(2), 1..2,
                [d \in 1..2 |->
                    [Date |-> d,
                     v |-> [c \in BALANCE_SHEET_COLS \ {"Invested Capital"}
                               |-> BalRowBase(d).v[c]]]]))

\* the universe of the multi-entity run
RunInputs ==
    {Entity(GoodFin, GoodBal, GoodCfl, i) : i \in Infos}
    \cup {Entity(GoodFin, HollowBal, GoodCfl, i) :
            i \in {FullInfo, InfoFile(Bag(TRUE, TRUE, "absent", "absent"))}}
    \cup {Entity(NotFound, GoodBal, GoodCfl, FullInfo),
          Entity(GoodFin, NotFound, GoodCfl, FullInfo),
          Entity(GoodFin, GoodBal, NotFound, FullInfo),
          Entity(NotFound, NotFound, GoodCfl, InfoNotFound),
          Entity(Malformed, GoodBal, GoodCfl, FullInfo),
          Entity(GoodFin, NoFieldBal, GoodCfl, FullInfo),
          Entity(NotFound, Malformed, GoodCfl, FullInfo)}

Init == InitWith(SubSeq(TICKERS_TO_ANALYZE, 1, NumTickers))

Next ==
    \/ ProcessTicker(RunInputs)
    \/ WriteCurrentRatios
    \/ WriteHistorical
    \/ run_price_download_pipeline

Spec == Init /\ [][Next]_vars

-----------------------------------------------------------------------------
(* The universe of the single-entity run: statements with gaps, and          *)
(* statements with zero and negative values, both over 1..MaxPeriods         *)

Periods == 1..MaxPeriods

\* a statement whose row for period d is absent, complete, or has the cell
\* opt[d] missing
GapFile(cols, opt, row) ==
    OkFile(cols,
           Rows(Descending(MaxPeriods), {d \in Periods : opt[d] # "absent"},
                [d \in Periods |->
                    IF opt[d] = "full" THEN row[d]
                    ELSE SetCells(row[d], {opt[d]}, NaN)]))

GapOptions(cells) ==
    {opt \in [Periods -> {"absent", "full"} \cup cells] :
        \E d \in Periods : opt[d] # "absent"}

GapInputs ==
    {Entity(GapFile(FinCols, f, [d \in Periods |-> FinRowBase(d)]),
            GapFile(BALANCE_SHEET_COLS, b, [d \in Periods |-> BalRowBase(d)]),
            GapFile(CASHFLOW_COLS, c, [d \in Periods |-> CfRowBase(d)]),
            FullInfo) :
        f \in GapOptions({"Net Income"}),
        b \in GapOptions({"Stockholders Equity"}),
        c \in GapOptions({"Free Cash Flow"})}

FileOrder(o) == IF o = "asc" THEN Ascending(MaxPeriods) ELSE Descending(MaxPeriods)

DebtOf(sign, d) ==
    CASE sign = "neg"  -> Num(-(100 + 100 * d))
      [] sign = "zero" -> Num(0)
      [] sign = "pos"  -> Num(100 + 100 * d)
      [] OTHER         -> NaN

\* complete statements: the cells of `zeros` are 0 in period zd, pretax income
\* is 0 in period pd (none when pd = 0) with tax provision `tax` there, and
\* total debt has the given sign in every period
ValueEntity(ord, zeros, zd, pd, tax, debt) ==
    Entity(
        OkFile(FinCols,
               Rows(FileOrder(ord[1]), Periods,
                    [d \in Periods |->
                      LET z == IF d = zd THEN SetCells(FinRowBase(d), zeros, Num(0))
                                         ELSE FinRowBase(d)
                      IN  IF d = pd
                            THEN SetCells(SetCells(z, {"Pretax Income"}, Num(0)),
                                          {"Tax Provision"}, tax)
                            ELSE z])),
        OkFile(BALANCE_SHEET_COLS,
               Rows(FileOrder(ord[2]), Periods,
                    [d \in Periods |->
                      SetCells(BalRowBase(d), {"Total Debt"}, DebtOf(debt, d))])),
        OkFile(CASHFLOW_COLS,
               Rows(FileOrder(ord[3]), Periods,
                    [d \in Periods |->
                      IF d = zd THEN SetCells(CfRowBase(d), zeros, Num(0))
                                ELSE CfRowBase(d)])),
        FullInfo)

\* the order of the periods in the three files
FileOrders ==
    {<<"desc", "desc", "desc">>, <<"asc", "asc", "asc">>, <<"asc", "desc", "desc">>}

Divisors == {"Diluted EPS", "EBIT", "EBITDA", "Free Cash Flow"}

ValueInputs ==
    {ValueEntity(ord, zeros, zd, pd, tax, debt) :
        ord \in FileOrders,
        zeros \in SUBSET Divisors, zd \in Periods, pd \in 0..MaxPeriods,
        tax \in {Num(30), Num(0), NaN}, debt \in {"neg", "zero", "pos", "nan"}}

EngineInputs == GapInputs \cup ValueInputs

InitEngine == InitWith(SubSeq(TICKERS_TO_ANALYZE, 1, 1))

NextEngine ==
    \/ ProcessTicker(EngineInputs)
    \/ WriteCurrentRatios
    \/ WriteHistorical
    \/ run_price_download_pipeline

SpecEngine == InitEngine /\ [][NextEngine]_vars

-----------------------------------------------------------------------------
(* What the raw files of an entity say, read off the payloads themselves *)

Processed == DOMAIN files

Finished == pc \in {"done", "prices_done"}

Usable(file, keep) == file.st = "ok" /\ keep \subseteq file.cols /\ Len(file.rows) > 0

\* all three statements are there and carry their required fields
HasStatements(f) ==
    /\ Usable(f.financials, FINANCIALS_COLS)
    /\ Usable(f.balance_sheet, BALANCE_SHEET_COLS)
    /\ Usable(f.cashflow, CASHFLOW_COLS)

StatementOf(f, c) ==
    IF c \in FINANCIALS_COLS THEN f.financials
    ELSE IF c \in BALANCE_SHEET_COLS THEN f.balance_sheet
    ELSE f.cashflow

HasPeriod(file, d) == \E i \in 1..Len(file.rows) : file.rows[i].Date = d

\* the cell of field c in period d as the raw payload gives it
RawValue(f, d, c) ==
    LET file == StatementOf(f, c)
    IN  file.rows[CHOOSE i \in 1..Len(file.rows) : file.rows[i].Date = d].v[c]

RawDates(file) == {file.rows[i].Date : i \in 1..Len(file.rows)}

\* the periods every statement reports with all five critical fields present
FullCoverage(f) ==
    {d \in RawDates(f.financials) \cup RawDates(f.balance_sheet)
              \cup RawDates(f.cashflow) :
        \A c \in CRITICAL_COLS :
            HasPeriod(StatementOf(f, c), d) /\ ~IsNaN(RawValue(f, d, c))}

Latest(S) == CHOOSE d \in S : \A e \in S : e <= d

Min3(a, b, c) ==
    IF a <= b /\ a <= c THEN a ELSE IF b <= c THEN b ELSE c

HasInfo(f) == f.info.st = "ok"

HasMarketData(f) ==
    HasInfo(f) /\ {"marketCap", "currentPrice"} \subseteq DOMAIN f.info.data

\* statements, metadata and at least one period with full coverage
HasConsolidated(f) == HasStatements(f) /\ HasInfo(f) /\ FullCoverage(f) # {}

FullData(f) == HasConsolidated(f) /\ HasMarketData(f)

\* the current-period computation degraded to the error state
ErrorState(f) == HasConsolidated(f) /\ ~HasMarketData(f)

\* the groups whose current-ratio table holds a record of ticker t
CurrentGroups(t) ==
    {g \in DOMAIN current_csv :
        \E i \in 1..Len(current_csv[g]) : current_csv[g][i].name = t}

\* the groups under which a historical table of ticker t was written
HistoricalGroups(t) == {p[1] : p \in {q \in DOMAIN historical_csv : q[2] = t}}

RecordsOf(t) == SelectSeq(all_ratios, LAMBDA r : r.name = t)

-----------------------------------------------------------------------------
(* C1: in a completed run, an entity with all three statements, a non-empty  *)
(* consolidated table, market cap, current price and an industryKey in its   *)
(* metadata has exactly one current-ratio record, written to the table of    *)
(* the group its industryKey names and to no other, and its historical table *)
(* is written under that group and no other; before the run completes its    *)
(* outputs are under no other group.                                         *)
C1_OneGroup ==
    \A t \in Processed :
        (FullData(files[t]) /\ "industryKey" \in DOMAIN files[t].info.data) =>
            LET k == files[t].info.data["industryKey"]
            IN  /\ CurrentGroups(t) \subseteq {k}
                /\ HistoricalGroups(t) \subseteq {k}
                /\ Finished =>
                     /\ CurrentGroups(t) = {k}
                     /\ Len(SelectSeq(current_csv[k], LAMBDA r : r.name = t)) = 1
                     /\ HistoricalGroups(t) = {k}

\* a completed run wrote two entities with full data, one under
\* "semiconductors" and the other under another group
C1_Witness ==
    /\ Finished
    /\ \E t \in Processed, u \in Processed :
         /\ t # u
         /\ FullData(files[t]) /\ FullData(files[u])
         /\ "industryKey" \in DOMAIN files[t].info.data
         /\ "industryKey" \in DOMAIN files[u].info.data
         /\ files[t].info.data["industryKey"] = "semiconductors"
         /\ files[u].info.data["industryKey"] # "semiconductors"
         /\ CurrentGroups(t) = {"semiconductors"}
         /\ HistoricalGroups(t) = {"semiconductors"}

-----------------------------------------------------------------------------
\* the fallback chain of the specification: industryKey, then sector, then
\* "default_industry", the first non-empty one
FirstNonEmptyKey(bag) ==
    IF "industryKey" \in DOMAIN bag /\ bag["industryKey"] # "" THEN bag["industryKey"]
    ELSE IF "sector" \in DOMAIN bag /\ bag["sector"] # "" THEN bag["sector"]
    ELSE DEFAULT_INDUSTRY

(* C2: for every entity whose metadata was read, the classification key the  *)
(* ratio pipeline records for it (ticker_to_industry, the IndustryKey of its *)
(* record) and the key get_industry_key resolves for prices.py are both the  *)
(* first non-empty value of industryKey, sector, "default_industry".         *)
C2_FallbackChain ==
    \A t \in Processed :
        HasInfo(files[t]) =>
            /\ t \in DOMAIN price_dir =>
                 price_dir[t] = FirstNonEmptyKey(files[t].info.data)
            /\ t \in DOMAIN ticker_to_industry =>
                 ticker_to_industry[t] = FirstNonEmptyKey(files[t].info.data)
            /\ \A i \in 1..Len(all_ratios) :
                 all_ratios[i].name = t =>
                    all_ratios[i].IndustryKey = FirstNonEmptyKey(files[t].info.data)

(* C3: in a completed run, every entity with a non-empty consolidated table  *)
(* has its historical table (all qualifying periods with their ROE and ROIC) *)
(* stored, under the group of the classification key the ratio engine        *)
(* resolved for it, whether or not market cap and current price are present. *)
C3_HistoricalIndependent ==
    Finished =>
        \A t \in Processed :
            HasConsolidated(files[t]) =>
                /\ HistoricalGroups(t) = {RatioIndustryKey(files[t].info.data)}
                /\ \A p \in DOMAIN historical_csv :
                     p[2] = t =>
                        /\ Dates(historical_csv[p]) = FullCoverage(files[t])
                        /\ \A i \in 1..Len(historical_csv[p]) :
                             {"ROE (%)", "ROIC (%)"} \subseteq
                                 DOMAIN historical_csv[p][i].v

(* C4 as stated: in a completed run, an entity in the error state (market    *)
(* cap or current price absent) has a record in the current-ratio table of   *)
(* its classification group.                                                 *)
C4_ErrorStateIncluded ==
    Finished =>
        \A t \in Processed :
            ErrorState(files[t]) =>
                /\ Len(RecordsOf(t)) > 0
                /\ CurrentGroups(t) # {}

(* C4 amended: an entity in the error state is left out of the accumulated   *)
(* current results: it has no record in all_ratios, no entry in              *)
(* ticker_to_industry and no row in any group's current-ratio table; only    *)
(* its historical table is accumulated, and written in a completed run.      *)
C4_ErrorStateLeftOut ==
    \A t \in Processed :
        (ErrorState(files[t]) /\ pc # "crashed") =>
            /\ Len(RecordsOf(t)) = 0
            /\ t \notin DOMAIN ticker_to_industry
            /\ CurrentGroups(t) = {}
            /\ t \in DOMAIN historical_dataframes
            /\ Finished => HistoricalGroups(t) # {}

\* a completed run held an error-state entity next to one with full data
C4_Witness ==
    /\ Finished
    /\ \E t \in Processed, u \in Processed :
         /\ ErrorState(files[t])
         /\ FullData(files[u])
         /\ CurrentGroups(u) # {}
         /\ CurrentGroups(t) = {}
         /\ HistoricalGroups(t) # {}

\* a statement payload that is not found, unparseable or lacks a required field
FailingPayload(f) == ~HasStatements(f)

(* C5: a failing statement payload of one entity never aborts the run: the   *)
(* entity yields an empty result (nothing accumulated for it) and the loop   *)
(* goes on to the remaining entities and the write stage.                    *)
C5_Contained ==
    \A t \in Processed :
        FailingPayload(files[t]) =>
            /\ pc # "crashed"
            /\ Len(RecordsOf(t)) = 0
            /\ t \notin DOMAIN historical_dataframes
            /\ t \notin DOMAIN ticker_to_industry

(* C10: once both scripts have run, the directory prices.py uses for a       *)
(* ticker is the directory of every ratio output of that ticker: the group   *)
(* of its current-ratio record and the group of its historical table.        *)
C10_SameDirectory ==
    pc = "prices_done" =>
        \A t \in Processed :
            /\ CurrentGroups(t) \subseteq {price_dir[t]}
            /\ HistoricalGroups(t) \subseteq {price_dir[t]}

-----------------------------------------------------------------------------
(* C6: the consolidated table of an entity holds exactly the periods that    *)
(* all three statements report with the five critical fields present: its    *)
(* row count is at most the smallest of the three statements' row counts,    *)
(* every kept row has the five critical fields, and when no period has full  *)
(* coverage the table is empty and no historical table is kept.              *)
C6_FullCoverageOnly ==
    \A t \in Processed :
        LET f == files[t]
        IN  (HasStatements(f) /\ HasInfo(f)) =>
                IF FullCoverage(f) = {}
                    THEN t \notin DOMAIN historical_dataframes
                    ELSE /\ t \in DOMAIN historical_dataframes
                         /\ Dates(historical_dataframes[t]) = FullCoverage(f)
                         /\ Len(historical_dataframes[t]) = Cardinality(FullCoverage(f))
                         /\ Len(historical_dataframes[t]) <=
                               Min3(Len(f.financials.rows), Len(f.balance_sheet.rows),
                                    Len(f.cashflow.rows))
                         /\ \A i \in 1..Len(historical_dataframes[t]) :
                              \A c \in CRITICAL_COLS :
                                 ~IsNaN(historical_dataframes[t][i].v[c])

\* an entity whose consolidated table is non-empty and shorter than each of
\* its three statements
C6_Witness ==
    \E t \in DOMAIN historical_dataframes :
        /\ Len(historical_dataframes[t]) >= 1
        /\ Len(historical_dataframes[t]) <
              Min3(Len(files[t].financials.rows), Len(files[t].balance_sheet.rows),
                   Len(files[t].cashflow.rows))

\* the ratio columns of a record with the numerator and the divisor field of each
RatioColumns(r) ==
    {<<"PER", "Diluted EPS", files[r.name].info.data["currentPrice"]>>,
     <<"EV_EBIT", "EBIT", r.EV>>,
     <<"EV_EBITDA", "EBITDA", r.EV>>,
     <<"EV_FCF", "Free Cash Flow", r.EV>>}

(* C7: in the current-period record, a ratio whose divisor (diluted EPS,     *)
(* EBIT, EBITDA, free cash flow of the latest qualifying period) is exactly  *)
(* 0 is +infinity, every other ratio of the record is the quotient, the      *)
(* formatted view shows "N/A" for the former, and the run does not fail.     *)
C7_ZeroDivisorSentinel ==
    /\ \A i \in 1..Len(all_ratios) :
         LET r == all_ratios[i]
             d == Latest(FullCoverage(files[r.name]))
         IN  \A col \in RatioColumns(r) :
                LET divisor == RawValue(files[r.name], d, col[2])
                IN  IF IsZero(divisor) THEN r[col[1]] = Inf
                    ELSE r[col[1]] = FDiv(col[3], divisor)
    /\ pc \notin {"loop", "write_current", "crashed"} =>
         \A i \in 1..Len(all_ratios) :
            LET r == all_ratios[i]
                d == Latest(FullCoverage(files[r.name]))
            IN  \E j \in 1..Len(display[r.IndustryKey]) :
                   /\ display[r.IndustryKey][j].name = r.name
                   /\ \A col \in RatioColumns(r) :
                        IsZero(RawValue(files[r.name], d, col[2])) =>
                            display[r.IndustryKey][j][col[1]] = "N/A"
    /\ \A t \in Processed :
         (HasStatements(files[t]) /\ HasInfo(files[t])) => pc # "crashed"

\* a record with zero EBIT and non-zero diluted EPS was formatted
C7_Witness ==
    /\ Finished
    /\ \E i \in 1..Len(all_ratios) :
         LET r == all_ratios[i]
         IN  /\ r.EV_EBIT = Inf
             /\ IsFin(r.PER)
             /\ IsFin(r.EV_FCF)
             /\ display[r.IndustryKey][1].EV_EBIT = "N/A"
             /\ display[r.IndustryKey][1].PER # "N/A"

(* C8: for every period of the historical table, ROIC is                     *)
(* EBIT * (1 - rate) / invested capital * 100 with rate = tax provision /    *)
(* pretax income when pretax income is not 0 and rate = 21/100 when it is    *)
(* exactly 0, whatever the tax provision; no qualifying period is dropped.   *)
C8_FallbackTaxRate ==
    \A t \in DOMAIN historical_dataframes :
        LET f == files[t]
            h == historical_dataframes[t]
        IN  /\ Dates(h) = FullCoverage(f)
            /\ \A i \in 1..Len(h) :
                 LET d      == h[i].Date
                     pretax == RawValue(f, d, "Pretax Income")
                     tax    == RawValue(f, d, "Tax Provision")
                     ebit   == RawValue(f, d, "EBIT")
                     ic     == RawValue(f, d, "Invested Capital")
                     rate   == IF IsZero(pretax) THEN Rat(21, 100)
                                                 ELSE FDiv(tax, pretax)
                 IN  h[i].v["ROIC (%)"] =
                        FMul(FDiv(FMul(ebit, FSub(Num(1), rate)), ic), Num(100))

\* a period with zero pretax income and a tax provision of 30 got a finite ROIC
C8_Witness ==
    \E t \in DOMAIN historical_dataframes :
        \E i \in 1..Len(historical_dataframes[t]) :
            LET row == historical_dataframes[t][i]
            IN  /\ IsZero(row.v["Pretax Income"])
                /\ row.v["Tax Provision"] = Num(30)
                /\ IsFin(row.v["ROIC (%)"])
                /\ ~IsZero(row.v["ROIC (%)"])

(* C9: the current-period record is computed from the qualifying period with *)
(* the latest date, whatever the order of the periods in the raw files, and  *)
(* its enterprise value is market cap + total debt - cash of that period,    *)
(* exactly, for positive, zero and negative total debt.                      *)
C9_LatestPeriodEV ==
    \A i \in 1..Len(all_ratios) :
        LET r    == all_ratios[i]
            f    == files[r.name]
            d    == Latest(FullCoverage(f))
            mc   == f.info.data["marketCap"]
            debt == RawValue(f, d, "Total Debt")
            cash == RawValue(f, d, "Cash And Cash Equivalents")
        IN  /\ r.Date = d
            /\ r.MarketCap = mc
            /\ IsFin(debt) => r.EV = Num(mc.n + debt.n - cash.n)
            /\ IsNaN(debt) => IsNaN(r.EV)

\* a record with negative total debt, computed from files that list the
\* latest period first in one statement and last in another
C9_Witness ==
    \E i \in 1..Len(all_ratios) :
        LET r == all_ratios[i]
            f == files[r.name]
        IN  /\ Len(f.financials.rows) >= 2
            /\ f.financials.rows[Len(f.financials.rows)].Date = r.Date
            /\ f.balance_sheet.rows[1].Date = r.Date
            /\ RawValue(f, r.Date, "Total Debt").n < 0
            /\ r.EV.n < r.MarketCap.n

-----------------------------------------------------------------------------
\* the three statement files of an entity with the columns each must carry
StatementFiles(f) ==
    {<<f.financials, FINANCIALS_COLS>>,
     <<f.balance_sheet, BALANCE_SHEET_COLS>>,
     <<f.cashflow, CASHFLOW_COLS>>}

\* at least one statement file is not found, and every statement file that is
\* found is a readable payload with its required fields
MissingStatement(f) ==
    /\ \E s \in StatementFiles(f) : s[1].st = "notfound"
    /\ \A s \in StatementFiles(f) : s[1].st = "notfound" \/ Usable(s[1], s[2])

\* the entities a step of the main loop has just processed
JustProcessed == DOMAIN files' \ DOMAIN files

(* C11: when a statement file of an entity is not found (the statement files *)
(* that are found being readable), processing the entity raises nothing: the *)
(* statements that are found are normalized to all their periods in          *)
(* ascending order, analyze_ticker returns no ratio record, no historical    *)
(* table and no classification key, the loop moves on, and all_ratios,       *)
(* historical_dataframes and ticker_to_industry are left unchanged.          *)
C11_NotFoundFrame ==
    [][\A t \in JustProcessed :
          MissingStatement(files'[t]) =>
             /\ pc' # "crashed"
             /\ idx' = idx + 1
             /\ \A s \in StatementFiles(files'[t]) :
                  LET loaded == load_and_clean_financial_data(s[1], s[2])
                  IN  /\ loaded.exc = "none"
                      /\ s[1].st = "notfound" => Empty(loaded.df)
                      /\ s[1].st = "ok" =>
                           /\ Index(loaded.df) = SortedSeqOf(RawDates(s[1]))
                           /\ \A i \in 1..Len(loaded.df) :
                                DOMAIN loaded.df[i].v = s[2]
             /\ analyze_ticker(t, files'[t]) = NoResult("none", NoneKey)
             /\ UNCHANGED <<all_ratios, historical_dataframes, ticker_to_industry>>
      ]_vars

\* an entity with a missing balance sheet was processed after an entity with
\* full data, whose record, table and key are all the accumulators hold
C11_Witness ==
    \E t \in Processed, u \in Processed :
        /\ FullData(files[u])
        /\ files[t].balance_sheet.st = "notfound"
        /\ MissingStatement(files[t])
        /\ idx = 2
        /\ Len(all_ratios) = 1
        /\ all_ratios[1].name = u
        /\ DOMAIN historical_dataframes = {u}
        /\ DOMAIN ticker_to_industry = {u}

=============================================================================
